---- MODULE Spec2Model ----
(***************************************************************************)
(* Model of src/trading_dashboard.py: the Bollinger breakout engine.       *)
(*                                                                         *)
(* Numbers.  Prices are integers (ticks of 0.1).  Every value the code     *)
(* derives from a price by *, / or - (stop levels, P&L percentages, the    *)
(* performance figures) is an exact rational <<n, d>> in lowest terms with *)
(* d > 0: float rounding is not modelled.                                  *)
(*                                                                         *)
(* Threads.  The program runs update_all_signals on the main thread once,  *)
(* then in the background updater thread and in a Flask handler thread     *)
(* per /api/update request.  A cycle is modelled as the steps              *)
(*   begin, (evaluate [, metrics, update, del])* , lock, publish           *)
(* where "evaluate" is lines 225-237 up to and including the deque append  *)
(* of record_trade, "metrics" is update_performance_metrics reading the    *)
(* pnls of the ledger (line 205), "update" is its writing the summary      *)
(* (lines 208-221) and "del" is the del / re-open / return after           *)
(* record_trade.  A thread that appends to the ledger while another one    *)
(* is inside line 205 makes the latter raise RuntimeError (deque mutated   *)
(* during iteration); the read is modelled as one step, without it.        *)
(***************************************************************************)
EXTENDS Integers, Sequences, FiniteSets, TLC

VARIABLES latest_signals, active_trades, trade_history, performance_metrics,
          data_lock, pc, idx, signals, frame, cycles, response, arg, ret

vars == <<latest_signals, active_trades, trade_history, performance_metrics,
          data_lock, pc, idx, signals, frame, cycles, response, arg, ret>>

engine == <<latest_signals, active_trades, trade_history, performance_metrics>>

(***************************************************************************)
(* Exact rationals                                                         *)
(***************************************************************************)
Abs(x) == IF x < 0 THEN -x ELSE x

RECURSIVE GCD(_, _)
GCD(a, b) == IF b = 0 THEN a ELSE GCD(b, a % b)

Rat(n, d) ==
    LET g == GCD(Abs(n), Abs(d))
        s == IF d < 0 THEN -1 ELSE 1
    IN  <<(s * n) \div g, (s * d) \div g>>

Int2Rat(n) == <<n, 1>>
RatAdd(a, b) == Rat(a[1] * b[2] + b[1] * a[2], a[2] * b[2])
RatSub(a, b) == Rat(a[1] * b[2] - b[1] * a[2], a[2] * b[2])
RatMul(a, b) == Rat(a[1] * b[1], a[2] * b[2])
RatDiv(a, b) == Rat(a[1] * b[2], a[2] * b[1])
RatLt(a, b)  == a[1] * b[2] < b[1] * a[2]
RatLeq(a, b) == a[1] * b[2] <= b[1] * a[2]
RatMax(a, b) == IF RatLeq(a, b) THEN b ELSE a
RatMin(a, b) == IF RatLeq(a, b) THEN a ELSE b
RatAbs(a)    == <<Abs(a[1]), a[2]>>
Zero == <<0, 1>>

Max(a, b) == IF a >= b THEN a ELSE b
Min(a, b) == IF a <= b THEN a ELSE b

(***************************************************************************)
(* Program constants                                                       *)
(***************************************************************************)
\* line 25: TRADING_FEE = 0.001
TRADING_FEE == Rat(1, 1000)
\* line 20: deque(maxlen=200)
MAXLEN == 200
\* line 226: len(df) < 50
MIN_CANDLES == 50
\* line 231: calculate_bollinger_bands(close_prices, 20, 1)
BB_LENGTH == 20
BB_STD_DEV == 1
\* line 289: list(trade_history)[-50:]
TRADES_SHOWN == 50

\* lines 109, 118, 165, 181: * 0.98;  lines 132, 141, 165, 188: * 1.02
LONG_STOP  == Rat(98, 100)
SHORT_STOP == Rat(102, 100)
\* lines 107, 130: pnl >= 1
TRAIL_AT == Int2Rat(1)
\* line 89: < 0.002
SMA_BAND == Rat(2, 1000)

(***************************************************************************)
(* Market input: what one fetch hands to bollinger_signal.  A bar holds    *)
(* the last two closes and the rolling mean / standard deviation of the    *)
(* last two windows (lines 57-58); the bands are derived from them as in   *)
(* lines 59-60.                                                            *)
(***************************************************************************)
Prices     == {950, 980, 990, 1000, 1010, 1020, 1050}
PrevPrices == {980, 1000, 1020}
PrevSmas   == {1000}
SmaOffsets == {-15, -1, 1, 15}
Stds       == {0, 100}

Bars ==
    { [previous_price |-> pp, current_price |-> cp,
       previous_sma |-> ps, previous_std |-> 0,
       current_sma |-> cp + off, current_std |-> sd] :
         pp \in PrevPrices, ps \in PrevSmas, cp \in Prices,
         off \in SmaOffsets, sd \in Stds }

\* lines 59-60: upper_band = sma + std * std_dev, lower_band = sma - std * std_dev
upper_band(sma, std) == sma + std * BB_STD_DEV
lower_band(sma, std) == sma - std * BB_STD_DEV

\* line 87
new_buy_signal(bar) ==
    /\ bar.previous_price <= upper_band(bar.previous_sma, bar.previous_std)
    /\ bar.current_price > upper_band(bar.current_sma, bar.current_std)
\* line 88
new_sell_signal(bar) ==
    /\ bar.previous_price >= lower_band(bar.previous_sma, bar.previous_std)
    /\ bar.current_price < lower_band(bar.current_sma, bar.current_std)
\* at_sma with a band of 2% around the mean
at_sma_wide(bar) ==
    RatLt(Rat(Abs(bar.current_price - bar.current_sma), bar.current_sma), Rat(2, 100))

\* line 89: abs(current_price - current_sma) / current_sma < 0.002
at_sma(bar) ==
    RatLt(Rat(Abs(bar.current_price - bar.current_sma), bar.current_sma), SMA_BAND)

(***************************************************************************)
(* bollinger_signal, lines 75-192, as a function of the symbol's entry in  *)
(* active_trades (NoTrade when the key is absent) and the bar.             *)
(***************************************************************************)
NoTrade == [signal |-> "NONE"]
NoInfo  == [in_position |-> FALSE]

\* lines 104 / 127: unrealized P&L in percent
GrossPnl(signal_type, entry_price, current_price) ==
    IF signal_type = "BUY"
    THEN RatMul(Rat(current_price - entry_price, entry_price), Int2Rat(100))
    ELSE RatMul(Rat(entry_price - current_price, entry_price), Int2Rat(100))

\* NetPnl with the fee of one leg only
NetPnlOneLeg(pnl) == RatSub(pnl, RatMul(TRADING_FEE, Int2Rat(100)))

\* lines 113, 122, 136, 145, 151, 157: net_pnl = pnl - (TRADING_FEE * 200)
NetPnl(pnl) == RatSub(pnl, RatMul(TRADING_FEE, Int2Rat(200)))

\* InitialStop with the long stop on both sides
InitialStopLongOnly(signal, price) == RatMul(Int2Rat(price), LONG_STOP)

\* lines 165, 181, 188: the stop of a position opened at price
InitialStop(signal, price) ==
    RatMul(Int2Rat(price), IF signal = "BUY" THEN LONG_STOP ELSE SHORT_STOP)

\* lines 162-166, 179-181, 186-188: a fresh position
NewTrade(signal, price) ==
    [entry_price |-> price, signal |-> signal,
     highest_since_entry |-> price, lowest_since_entry |-> price,
     stop_loss |-> InitialStop(signal, price), stop_type |-> "Initial"]

\* NewInfo that reports the stop of the other side
NewInfoOtherSide(signal, price) ==
    [in_position |-> TRUE, entry_price |-> price,
     current_stop |-> InitialStop(IF signal = "BUY" THEN "SELL" ELSE "BUY", price),
     stop_type |-> "Initial", position_type |-> signal]

\* lines 168-170, 182-183, 189-190: position_info of a fresh position
NewInfo(signal, price) ==
    [in_position |-> TRUE, entry_price |-> price,
     current_stop |-> InitialStop(signal, price), stop_type |-> "Initial",
     position_type |-> signal]

\* TrackExtremes that keeps only the price of the last evaluation
TrackLastPrice(e, current_price) ==
    [e EXCEPT !.highest_since_entry = current_price,
              !.lowest_since_entry  = current_price]

\* lines 100-101
TrackExtremes(e, current_price) ==
    [e EXCEPT !.highest_since_entry = Max(@, current_price),
              !.lowest_since_entry  = Min(@, current_price)]

\* lines 108 / 131: the trailing stop candidate
TrailingStop(e) ==
    IF e.signal = "BUY"
    THEN RatMul(Int2Rat(e.highest_since_entry), LONG_STOP)
    ELSE RatMul(Int2Rat(e.lowest_since_entry), SHORT_STOP)

\* ManageStop that leaves the stored stop alone when P&L is below 1%
ManageStopKeepsStop(e, pnl) ==
    IF RatLeq(TRAIL_AT, pnl)
    THEN [e EXCEPT !.stop_loss = IF e.signal = "BUY"
                                 THEN RatMax(@, TrailingStop(e))
                                 ELSE RatMin(@, TrailingStop(e)),
                   !.stop_type = "Trailing"]
    ELSE [e EXCEPT !.stop_type = "Initial"]

\* lines 107-110, 117-119 (LONG) and 130-133, 140-142 (SHORT): stop management
\* of the dict entry e whose extremes are already tracked
ManageStop(e, pnl) ==
    IF RatLeq(TRAIL_AT, pnl)
    THEN [e EXCEPT !.stop_loss = IF e.signal = "BUY"
                                 THEN RatMax(@, TrailingStop(e))
                                 ELSE RatMin(@, TrailingStop(e)),
                   !.stop_type = "Trailing"]
    ELSE [e EXCEPT !.stop_loss = InitialStop(e.signal, e.entry_price),
                   !.stop_type = "Initial"]

\* StopHit with strict comparisons
StopHitStrict(e, pnl, current_price) ==
    LET level == IF RatLeq(TRAIL_AT, pnl) THEN TrailingStop(e) ELSE e.stop_loss
    IN  IF e.signal = "BUY"
        THEN RatLt(Int2Rat(current_price), level)
        ELSE RatLt(level, Int2Rat(current_price))

\* lines 112, 121 (LONG) and 135, 144 (SHORT): is the stop hit?  The trailing
\* branch compares with the candidate trailing_stop, the initial branch with
\* the stored stop_loss.
StopHit(e, pnl, current_price) ==
    LET level == IF RatLeq(TRAIL_AT, pnl) THEN TrailingStop(e) ELSE e.stop_loss
    IN  IF e.signal = "BUY"
        THEN RatLeq(Int2Rat(current_price), level)
        ELSE RatLeq(level, Int2Rat(current_price))

\* IsReversal that takes a breakout in either direction
IsReversalEitherWay(signal_type, bar) == new_sell_signal(bar) \/ new_buy_signal(bar)

\* line 156
IsReversal(signal_type, bar) ==
    \/ signal_type = "BUY"  /\ new_sell_signal(bar)
    \/ signal_type = "SELL" /\ new_buy_signal(bar)

\* lines 195-197: the record that record_trade appends (the timestamp string
\* is not modelled)
record_trade(symbol, entry_price, exit_price, signal_type, pnl, reason) ==
    [symbol |-> symbol, entry_price |-> entry_price, exit_price |-> exit_price,
     signal_type |-> signal_type, pnl |-> pnl, reason |-> reason]

\* The result: `entry` is the dict entry as bollinger_signal has updated it in
\* place (what is in active_trades when record_trade runs), `exit` the reason
\* handed to record_trade ("None": no trade recorded) and `trade` the record
\* it appends, `left` the entry of active_trades when the function returns,
\* and signal / reason / position the returned triple.
bollinger_signal(symbol, entry_data, bar) ==
    LET current_price == bar.current_price
    IN  IF entry_data # NoTrade
        THEN LET signal_type == entry_data.signal
                 entry_price == entry_data.entry_price
                 tracked     == TrackExtremes(entry_data, current_price)
                 pnl         == GrossPnl(signal_type, entry_price, current_price)
                 e           == ManageStop(tracked, pnl)
                 net_pnl     == NetPnl(pnl)
                 closed(why, text) ==
                     [entry |-> e, exit |-> why,
                      trade |-> record_trade(symbol, entry_price, current_price,
                                             signal_type, net_pnl, why),
                      left |-> NoTrade,
                      signal |-> "NEUTRAL", reason |-> text, position |-> NoInfo]
             IN  IF StopHit(e, pnl, current_price)
                 THEN IF e.stop_type = "Trailing"
                      THEN closed("Trailing", "Closed")
                      ELSE closed("Stop", "Stop hit")
                 ELSE IF at_sma(bar)
                 THEN closed("SMA", "Exit at SMA")
                 ELSE IF IsReversal(signal_type, bar)
                 THEN LET new_signal == IF new_sell_signal(bar) THEN "SELL" ELSE "BUY"
                      IN  [closed("Reversal", "Reversed") EXCEPT
                              !.left = NewTrade(new_signal, current_price),
                              !.signal = new_signal,
                              !.position = NewInfo(new_signal, current_price)]
                 ELSE [entry |-> e, exit |-> "None", left |-> e,
                       signal |-> signal_type,
                       reason |-> IF e.stop_type = "Trailing"
                                  THEN "Trailing stop active"
                                  ELSE "Initial stop active",
                       position |-> [in_position |-> TRUE, entry_price |-> entry_price,
                                     current_stop |-> e.stop_loss,
                                     stop_type |-> e.stop_type,
                                     position_type |-> signal_type]]
        ELSE IF new_buy_signal(bar)
        THEN [entry |-> NoTrade, exit |-> "None", left |-> NewTrade("BUY", current_price),
              signal |-> "BUY", reason |-> "NEW LONG",
              position |-> NewInfo("BUY", current_price)]
        ELSE IF new_sell_signal(bar)
        THEN [entry |-> NoTrade, exit |-> "None", left |-> NewTrade("SELL", current_price),
              signal |-> "SELL", reason |-> "NEW SHORT",
              position |-> NewInfo("SELL", current_price)]
        ELSE [entry |-> NoTrade, exit |-> "None", left |-> NoTrade,
              signal |-> "NEUTRAL", reason |-> "Between bands", position |-> NoInfo]

(***************************************************************************)
(* The trade ledger and the performance summary                            *)
(***************************************************************************)
\* DequeAppend of a deque without maxlen
DequeAppendUnbounded(q, x) == Append(q, x)

\* line 20: deque(maxlen=200).append
DequeAppend(q, x) == IF Len(q) >= MAXLEN THEN Append(Tail(q), x) ELSE Append(q, x)

\* sum(ps[lo..hi]), halving the range (the order of the additions does not
\* matter for exact rationals)
RECURSIVE SumRange(_, _, _)
SumRange(ps, lo, hi) ==
    IF lo > hi THEN Zero
    ELSE IF lo = hi THEN ps[lo]
    ELSE RatAdd(SumRange(ps, lo, (lo + hi) \div 2), SumRange(ps, (lo + hi) \div 2 + 1, hi))
SumTo(ps, n) == SumRange(ps, 1, n)

\* lines 219-221 on ps[lo..hi]: <<sum, highest prefix sum, lowest prefix sum,
\* largest drop of the cumulative sum below its running maximum>>
JoinDrawdown(l, r) ==
    <<RatAdd(l[1], r[1]),
      RatMax(l[2], RatAdd(l[1], r[2])),
      RatMin(l[3], RatAdd(l[1], r[3])),
      RatMax(RatMax(l[4], r[4]), RatSub(l[2], RatAdd(l[1], r[3])))>>
RECURSIVE DrawdownRange(_, _, _)
DrawdownRange(ps, lo, hi) ==
    IF lo = hi THEN <<ps[lo], ps[lo], ps[lo], Zero>>
    ELSE JoinDrawdown(DrawdownRange(ps, lo, (lo + hi) \div 2),
                      DrawdownRange(ps, (lo + hi) \div 2 + 1, hi))
MaxDrawdown(ps) == DrawdownRange(ps, 1, Len(ps))[4]

IsWin(p)  == p[1] > 0
IsLoss(p) == p[1] < 0
Square(p) == RatMul(p, p)

\* line 217: np.mean(pnls) / np.std(pnls) * np.sqrt(len(pnls)) if np.std(pnls) > 0
\* else 0.  The value is kept as its sign and its square,
\*   mean^2 * n / variance = n * S^2 / (n * Q - S^2),  S = sum p, Q = sum p^2,
\* which is rational; the variance n * Q - S^2 (times n^2) is 0 exactly when
\* all pnls are equal.
SharpeRatio(ps) ==
    LET n == Len(ps)
        S == SumTo(ps, n)
        Q == SumTo([i \in 1..n |-> Square(ps[i])], n)
        V == RatSub(RatMul(Int2Rat(n), Q), Square(S))
    IN  IF V[1] > 0
        THEN [sign |-> IF S[1] > 0 THEN 1 ELSE IF S[1] < 0 THEN -1 ELSE 0,
              square |-> RatDiv(RatMul(Int2Rat(n), Square(S)), V)]
        ELSE [sign |-> 0, square |-> Zero]

\* lines 21-23
InitialMetrics ==
    [total_trades |-> 0, winning_trades |-> 0, losing_trades |-> 0,
     total_pnl |-> Zero, win_rate |-> Zero, avg_win |-> Zero, avg_loss |-> Zero,
     profit_factor |-> Zero, sharpe_ratio |-> [sign |-> 0, square |-> Zero],
     max_drawdown |-> Zero]

\* lines 200-221, applied to the summary m and the ledger q
update_performance_metrics(m, q) ==
    IF Len(q) = 0 THEN m
    ELSE LET pnls   == [i \in 1..Len(q) |-> q[i].pnl]
             wins   == SelectSeq(pnls, IsWin)
             losses == SelectSeq(pnls, IsLoss)
             sw     == SumTo(wins, Len(wins))
             sl     == SumTo(losses, Len(losses))
         IN  [total_trades   |-> Len(pnls),
              winning_trades |-> Len(wins),
              losing_trades  |-> Len(losses),
              total_pnl      |-> SumTo(pnls, Len(pnls)),
              win_rate       |-> Rat(Len(wins) * 100, Len(pnls)),
              avg_win        |-> IF Len(wins) > 0
                                 THEN RatDiv(sw, Int2Rat(Len(wins))) ELSE Zero,
              avg_loss       |-> IF Len(losses) > 0
                                 THEN RatDiv(sl, Int2Rat(Len(losses))) ELSE Zero,
              profit_factor  |-> IF Len(losses) > 0 /\ sl # Zero
                                 THEN RatDiv(sw, RatAbs(sl)) ELSE Zero,
              sharpe_ratio   |-> IF Len(pnls) > 1
                                 THEN SharpeRatio(pnls) ELSE m.sharpe_ratio,
              max_drawdown   |-> MaxDrawdown(pnls)]

(***************************************************************************)
(* The evaluation cycle                                                    *)
(***************************************************************************)
\* line 16.  The universe is cut to its first two symbols; an evaluation
\* touches only its own symbol's key of active_trades.
ASSETS == <<"BTCUSDT", "ETHUSDT">>

Symbols == {ASSETS[i] : i \in 1..Len(ASSETS)}

\* The threads that run update_all_signals: the main thread (line 444), the
\* background updater (lines 264-270, 446) and a Flask request handler
\* (lines 291-296).
Threads == {"main", "updater", "handler"}

\* How many cycles may start in a behaviour
MaxCycles == 3

\* What fetch_binance_klines hands back: None (line 52), or a frame of
\* `candles` rows ending in `bar`
NoData  == [candles |-> 0]
ShortDF == [candles |-> 30]
FullDF(bar) == [candles |-> 250, bar |-> bar]

\* The bars served to the cycles.  BTCUSDT sees a breakout up, a breakout
\* down and a quiet bar at 1000, and a bar at 1050 that touches the mean;
\* ETHUSDT sees the quiet bar only.  A position is thus only ever opened at
\* 1000, every pnl of the ledger is a multiple of 1/10, and the sums of the
\* summary stay small.
Feed ==
    { b \in Bars :
        /\ b.previous_price = 1000
        /\ \/ b.current_price = 1000 /\ b.current_sma = 985  /\ b.current_std = 0
           \/ b.current_price = 1000 /\ b.current_sma = 1015
           \/ b.current_price = 1050 /\ b.current_sma = 1049 /\ b.current_std = 100 }
Quiet == { b \in Feed : b.current_price = 1000 /\ b.current_std = 100 }

Fetches(symbol) ==
    {NoData, ShortDF} \cup {FullDF(b) : b \in IF symbol = ASSETS[1] THEN Feed ELSE Quiet}

\* lines 54-56: the bands exist when there are at least `length` prices
\* lines 55-56 on a frame of which only the number of candles is kept
has_bands(df, length) == IF df.candles < length THEN "None" ELSE "bands"

\* dict helpers
Has(d, k)    == k \in DOMAIN d
Put(d, k, v) == [x \in DOMAIN d \cup {k} |-> IF x = k THEN v ELSE d[x]]
Del(d, k)    == [x \in DOMAIN d \ {k} |-> d[x]]
\* Get that never finds the key
GetNothing(d, k) == NoTrade
\* lines 95-96: symbol in active_trades, active_trades[symbol]
Get(d, k)    == IF Has(d, k) THEN d[k] ELSE NoTrade
EmptyDict    == [x \in {} |-> NoTrade]

\* lines 227-228, 234-235, 250-251
ErrorSnapshot(symbol, reason) ==
    [symbol |-> symbol, signal |-> "ERROR", reason |-> reason, position |-> NoInfo]
\* lines 244-247 (price, change, rsi and atr are display values, not modelled)
Snapshot(symbol, r) ==
    [symbol |-> symbol, signal |-> r.signal, reason |-> r.reason,
     position |-> r.position]

NoFrame == [exit |-> "None"]
NoResponse == [route |-> "none"]

Symbol(t) == ASSETS[idx[t]]

\* Advance that leaves the loop at the first ERROR snapshot
AdvanceUntilError(t, snapshot) ==
    /\ signals' = [signals EXCEPT ![t] = Put(@, ASSETS[idx[t]], snapshot)]
    /\ frame' = [frame EXCEPT ![t] = NoFrame]
    /\ IF idx[t] < Len(ASSETS) /\ snapshot.signal # "ERROR"
       THEN /\ idx' = [idx EXCEPT ![t] = @ + 1]
            /\ pc' = [pc EXCEPT ![t] = "evaluate"]
       ELSE /\ idx' = idx
            /\ pc' = [pc EXCEPT ![t] = "lock"]

\* lines 257-262: store the snapshot in the local map and go on with the loop
Advance(t, snapshot) ==
    /\ signals' = [signals EXCEPT ![t] = Put(@, Symbol(t), snapshot)]
    /\ frame' = [frame EXCEPT ![t] = NoFrame]
    /\ IF idx[t] < Len(ASSETS)
       THEN /\ idx' = [idx EXCEPT ![t] = @ + 1]
            /\ pc' = [pc EXCEPT ![t] = "evaluate"]
       ELSE /\ idx' = idx
            /\ pc' = [pc EXCEPT ![t] = "lock"]

\* lines 253-256, entered from line 444 (main), 267 (updater) or 294 (handler).
\* The updater and the handlers exist once the main thread's cycle is over.
BeginCycle(t) ==
    /\ pc[t] = "idle"
    /\ cycles < MaxCycles
    /\ t # "main" => pc["main"] = "serving"
    /\ cycles' = cycles + 1
    /\ pc' = [pc EXCEPT ![t] = "evaluate"]
    /\ idx' = [idx EXCEPT ![t] = 1]
    /\ signals' = [signals EXCEPT ![t] = EmptyDict]
    /\ response' = NoResponse
    /\ UNCHANGED <<engine, data_lock, frame, arg, ret>>

\* fetch_asset_data lines 223-237 with bollinger_signal up to the first
\* record_trade's append (line 195), or to its return when nothing is closed
Evaluate(t) ==
    /\ pc[t] = "evaluate"
    /\ response' = NoResponse
    /\ UNCHANGED <<latest_signals, performance_metrics, data_lock, cycles, arg, ret>>
    /\ \E df \in Fetches(Symbol(t)) :
         IF df.candles < MIN_CANDLES
         THEN /\ Advance(t, ErrorSnapshot(Symbol(t), "No data"))
              /\ UNCHANGED <<active_trades, trade_history>>
         ELSE IF has_bands(df, BB_LENGTH) = "None"
         THEN /\ Advance(t, ErrorSnapshot(Symbol(t), "Calc error"))
              /\ UNCHANGED <<active_trades, trade_history>>
         ELSE LET r == bollinger_signal(Symbol(t), Get(active_trades, Symbol(t)), df.bar)
              IN  IF r.exit = "None"
                  THEN /\ active_trades' = IF r.left = NoTrade THEN active_trades
                                           ELSE Put(active_trades, Symbol(t), r.left)
                       /\ Advance(t, Snapshot(Symbol(t), r))
                       /\ UNCHANGED trade_history
                  ELSE /\ active_trades' = Put(active_trades, Symbol(t), r.entry)
                       /\ trade_history' = DequeAppend(trade_history, r.trade)
                       /\ frame' = [frame EXCEPT ![t] = r]
                       /\ pc' = [pc EXCEPT ![t] = "metrics"]
                       /\ UNCHANGED <<idx, signals>>

\* record_trade line 198, update_performance_metrics lines 200-206: the pnls
\* are read from the ledger as it is now
Metrics(t) ==
    /\ pc[t] = "metrics"
    /\ frame' = [frame EXCEPT ![t] = [seen |-> trade_history] @@ @]
    /\ pc' = [pc EXCEPT ![t] = "update"]
    /\ response' = NoResponse
    /\ UNCHANGED <<engine, data_lock, idx, signals, cycles, arg, ret>>

\* update_performance_metrics lines 208-221: the summary is written from the
\* pnls read by this thread
UpdateMetrics(t) ==
    /\ pc[t] = "update"
    /\ performance_metrics' = update_performance_metrics(performance_metrics, frame[t].seen)
    /\ pc' = [pc EXCEPT ![t] = "del"]
    /\ response' = NoResponse
    /\ UNCHANGED <<latest_signals, active_trades, trade_history, data_lock, idx,
                   signals, frame, cycles, arg, ret>>

\* After record_trade: del active_trades[symbol] (lines 115, 124, 138, 147, 153,
\* 159), the re-open of a reversal (lines 161-166) and the return; a missing
\* key raises KeyError, which fetch_asset_data turns into an ERROR snapshot
\* (lines 248-251).
DelTrade(t) ==
    /\ pc[t] = "del"
    /\ response' = NoResponse
    /\ UNCHANGED <<latest_signals, trade_history, performance_metrics, data_lock,
                   cycles, arg, ret>>
    /\ IF Has(active_trades, Symbol(t))
       THEN /\ active_trades' = IF frame[t].left = NoTrade
                                THEN Del(active_trades, Symbol(t))
                                ELSE Put(active_trades, Symbol(t), frame[t].left)
            /\ Advance(t, Snapshot(Symbol(t), frame[t]))
       ELSE /\ active_trades' = active_trades
            /\ Advance(t, ErrorSnapshot(Symbol(t), "KeyError"))

\* line 260: with data_lock
Lock(t) ==
    /\ pc[t] = "lock"
    /\ data_lock = "free"
    /\ data_lock' = t
    /\ pc' = [pc EXCEPT ![t] = "publish"]
    /\ response' = NoResponse
    /\ UNCHANGED <<engine, idx, signals, frame, cycles, arg, ret>>

\* lines 261-262, and what follows the cycle: the main thread goes on to serve
\* (line 455), the updater sleeps (line 270), the handler answers (line 295)
Publish(t) ==
    /\ pc[t] = "publish"
    /\ latest_signals' = signals[t]
    /\ data_lock' = "free"
    /\ pc' = [pc EXCEPT ![t] = CASE t = "main" -> "serving"
                                 [] t = "updater" -> "idle"
                                 [] OTHER -> "respond"]
    /\ response' = NoResponse
    /\ UNCHANGED <<active_trades, trade_history, performance_metrics, idx, signals,
                   frame, cycles, arg, ret>>

\* lines 295-296
Respond(t) ==
    /\ pc[t] = "respond"
    /\ data_lock = "free"
    /\ response' = [route |-> "update", body |-> latest_signals]
    /\ pc' = [pc EXCEPT ![t] = "idle"]
    /\ UNCHANGED <<engine, data_lock, idx, signals, frame, cycles, arg, ret>>

(***************************************************************************)
(* The read accessors, each one with-block of its own handler thread       *)
(***************************************************************************)
\* LastTrades taking the head of the ledger, list(trade_history)[:50]
FirstTrades(q) ==
    IF Len(q) <= TRADES_SHOWN THEN q ELSE SubSeq(q, 1, TRADES_SHOWN)

\* line 289: list(trade_history)[-50:]
LastTrades(q) ==
    IF Len(q) <= TRADES_SHOWN THEN q ELSE SubSeq(q, Len(q) - TRADES_SHOWN + 1, Len(q))

Serving == pc["main"] = "serving" /\ data_lock = "free"

\* lines 276-279
get_signals ==
    /\ Serving
    /\ response' = [route |-> "signals", body |-> latest_signals]
    /\ UNCHANGED <<engine, data_lock, pc, idx, signals, frame, cycles, arg, ret>>
\* lines 281-284
get_performance ==
    /\ Serving
    /\ response' = [route |-> "performance", body |-> performance_metrics]
    /\ UNCHANGED <<engine, data_lock, pc, idx, signals, frame, cycles, arg, ret>>
\* lines 286-289
get_trades ==
    /\ Serving
    /\ response' = [route |-> "trades", body |-> LastTrades(trade_history)]
    /\ UNCHANGED <<engine, data_lock, pc, idx, signals, frame, cycles, arg, ret>>

(***************************************************************************)
(* Specifications                                                          *)
(***************************************************************************)
NoRet == [exit |-> "pending"]

Init ==
    /\ latest_signals = EmptyDict
    /\ active_trades = EmptyDict
    /\ trade_history = <<>>
    /\ performance_metrics = InitialMetrics
    /\ data_lock = "free"
    /\ pc = [t \in Threads |-> "idle"]
    /\ idx = [t \in Threads |-> 1]
    /\ signals = [t \in Threads |-> EmptyDict]
    /\ frame = [t \in Threads |-> NoFrame]
    /\ cycles = 0
    /\ response = NoResponse
    /\ arg = [entry_data |-> NoTrade]
    /\ ret = NoRet

Next ==
    \/ \E t \in Threads : BeginCycle(t)
    \/ \E t \in Threads : Evaluate(t)
    \/ \E t \in Threads : Metrics(t)
    \/ \E t \in Threads : UpdateMetrics(t)
    \/ \E t \in Threads : DelTrade(t)
    \/ \E t \in Threads : Lock(t)
    \/ \E t \in Threads : Publish(t)
    \/ \E t \in Threads : Respond(t)
    \/ get_signals
    \/ get_performance
    \/ get_trades

Spec == Init /\ [][Next]_vars

(***************************************************************************)
(* The position state machine of one symbol on its own: bollinger_signal   *)
(* applied to every bar of Bars, evaluation after evaluation.  arg is the  *)
(* call's input (the symbol's entry of active_trades and the bar), ret its *)
(* result.                                                                 *)
(***************************************************************************)
InitAsset ==
    /\ latest_signals = EmptyDict
    /\ active_trades = EmptyDict
    /\ trade_history = <<>>
    /\ performance_metrics = InitialMetrics
    /\ data_lock = "free"
    /\ pc = [t \in Threads |-> "idle"]
    /\ idx = [t \in Threads |-> 1]
    /\ signals = [t \in Threads |-> EmptyDict]
    /\ frame = [t \in Threads |-> NoFrame]
    /\ cycles = 0
    /\ response = NoResponse
    /\ arg \in {[entry_data |-> NoTrade, bar |-> b] : b \in Bars}
    /\ ret = NoRet

CallSignal ==
    /\ ret = NoRet
    /\ ret' = bollinger_signal(ASSETS[1], arg.entry_data, arg.bar)
    /\ UNCHANGED <<engine, data_lock, pc, idx, signals, frame, cycles, response, arg>>

NextBar ==
    /\ ret # NoRet
    /\ \E b \in Bars : arg' = [entry_data |-> ret.left, bar |-> b]
    /\ ret' = NoRet
    /\ UNCHANGED <<engine, data_lock, pc, idx, signals, frame, cycles, response>>

NextAsset == CallSignal \/ NextBar

SpecAsset == InitAsset /\ [][NextAsset]_vars

(***************************************************************************)
(* The engine late in a run: the server is up, BTCUSDT has gone through    *)
(* SeedLength closes (short at 1000 reversed by a breakout up, the long    *)
(* then closed at the mean at 1050, and so on, ending on a reversal) and   *)
(* holds the long opened by the last reversal; the last cycle is published.*)
(***************************************************************************)
SeedLengths == {49, 199}

BarUp   == CHOOSE b \in Feed : new_buy_signal(b)
BarDown == CHOOSE b \in Feed : new_sell_signal(b)
BarMean == CHOOSE b \in Feed : at_sma(b)
BarQuiet == CHOOSE b \in Quiet : TRUE

SeedReversal == bollinger_signal(ASSETS[1], NewTrade("SELL", 1000), BarUp)
SeedMean     == bollinger_signal(ASSETS[1], NewTrade("BUY", 1000), BarMean)
SeedLedger(n) == [i \in 1..n |-> IF i % 2 = 1 THEN SeedReversal.trade ELSE SeedMean.trade]

InitLedger ==
    /\ \E n \in SeedLengths :
         /\ trade_history = SeedLedger(n)
         /\ performance_metrics = update_performance_metrics(InitialMetrics, SeedLedger(n))
    /\ active_trades = Put(EmptyDict, ASSETS[1], SeedReversal.left)
    /\ latest_signals =
         [s \in Symbols |-> IF s = ASSETS[1]
                            THEN Snapshot(s, SeedReversal)
                            ELSE Snapshot(s, bollinger_signal(s, NoTrade, BarQuiet))]
    /\ data_lock = "free"
    /\ pc = [t \in Threads |-> IF t = "main" THEN "serving" ELSE "idle"]
    /\ idx = [t \in Threads |-> 1]
    /\ signals = [t \in Threads |-> EmptyDict]
    /\ frame = [t \in Threads |-> NoFrame]
    /\ cycles = 1
    /\ response = NoResponse
    /\ arg = [entry_data |-> NoTrade]
    /\ ret = NoRet

SpecLedger == InitLedger /\ [][Next]_vars

(***************************************************************************)
(* calculate_bollinger_bands on a whole series of closes.  A float is an   *)
(* exact rational, or NaN, written <<0, 0>>; arithmetic with NaN gives NaN *)
(* and every comparison with NaN is false.  The standard deviation is the  *)
(* sample one (pandas' ddof = 1), cut to two decimals.                     *)
(***************************************************************************)
NaN == <<0, 0>>
IsNaN(a) == a[2] = 0
FAdd(a, b) == IF IsNaN(a) \/ IsNaN(b) THEN NaN ELSE RatAdd(a, b)
FSub(a, b) == IF IsNaN(a) \/ IsNaN(b) THEN NaN ELSE RatSub(a, b)
FMul(a, b) == IF IsNaN(a) \/ IsNaN(b) THEN NaN ELSE RatMul(a, b)
FGeq(a, b) == ~IsNaN(a) /\ ~IsNaN(b) /\ RatLeq(b, a)

\* The largest r in lo..hi with r * r <= n, given lo * lo <= n
RECURSIVE SqrtIn(_, _, _)
SqrtIn(n, lo, hi) ==
    IF lo = hi THEN lo
    ELSE LET mid == (lo + hi + 1) \div 2
         IN  IF mid * mid <= n THEN SqrtIn(n, mid, hi) ELSE SqrtIn(n, lo, mid - 1)
Sqrt(a) == Rat(SqrtIn((a[1] * 10000) \div a[2], 0, 40000), 100)

\* The window of `length` closes that ends at index i
Window(prices, length, i) == [k \in 1..length |-> prices[i - length + k]]
WindowSum(w) == SumRange([k \in 1..Len(w) |-> Int2Rat(w[k])], 1, Len(w))
WindowSquares(w) == SumRange([k \in 1..Len(w) |-> Int2Rat(w[k] * w[k])], 1, Len(w))

\* line 57: prices.rolling(window=length).mean()
rolling_mean(prices, length) ==
    [i \in 1..Len(prices) |->
        IF i < length THEN NaN
        ELSE RatDiv(WindowSum(Window(prices, length, i)), Int2Rat(length))]

\* line 58: prices.rolling(window=length).std()
rolling_std(prices, length) ==
    [i \in 1..Len(prices) |->
        IF i < length THEN NaN
        ELSE LET w == Window(prices, length, i)
                 S == WindowSum(w)
                 Q == WindowSquares(w)
             IN  Sqrt(RatDiv(RatSub(RatMul(Int2Rat(length), Q), RatMul(S, S)),
                             Int2Rat(length * (length - 1))))]

\* calculate_bollinger_bands with the lower band above the mean
bands_with_sign_error(prices, length, std_dev) ==
    IF Len(prices) < length THEN [bands |-> FALSE]
    ELSE LET sma == rolling_mean(prices, length)
             std == rolling_std(prices, length)
         IN  [bands |-> TRUE,
              upper_band |-> [i \in 1..Len(prices) |-> FAdd(sma[i], FMul(std[i], Int2Rat(std_dev)))],
              sma        |-> sma,
              lower_band |-> [i \in 1..Len(prices) |-> FAdd(sma[i], FMul(std[i], Int2Rat(std_dev)))]]

\* lines 54-61; [bands |-> FALSE] is the return of None, None, None
calculate_bollinger_bands(prices, length, std_dev) ==
    IF Len(prices) < length THEN [bands |-> FALSE]
    ELSE LET sma == rolling_mean(prices, length)
             std == rolling_std(prices, length)
         IN  [bands |-> TRUE,
              upper_band |-> [i \in 1..Len(prices) |-> FAdd(sma[i], FMul(std[i], Int2Rat(std_dev)))],
              sma        |-> sma,
              lower_band |-> [i \in 1..Len(prices) |-> FSub(sma[i], FMul(std[i], Int2Rat(std_dev)))]]

\* The series: a start of BB_LENGTH - 2 closes at Low with at most MaxJumps of
\* them at High, extended close by close up to MaxPoints
Low == 1000
High == 1010
MaxJumps == 1
MaxPoints == 22
Starts ==
    { [i \in 1..(BB_LENGTH - 2) |-> IF i \in J THEN High ELSE Low] :
        J \in { K \in SUBSET (1..(BB_LENGTH - 2)) : Cardinality(K) <= MaxJumps } }

InitBands ==
    /\ latest_signals = EmptyDict
    /\ active_trades = EmptyDict
    /\ trade_history = <<>>
    /\ performance_metrics = InitialMetrics
    /\ data_lock = "free"
    /\ pc = [t \in Threads |-> "idle"]
    /\ idx = [t \in Threads |-> 1]
    /\ signals = [t \in Threads |-> EmptyDict]
    /\ frame = [t \in Threads |-> NoFrame]
    /\ cycles = 0
    /\ response = NoResponse
    /\ arg \in {[prices |-> s] : s \in Starts}
    /\ ret = NoRet

CallBands ==
    /\ ret = NoRet
    /\ ret' = calculate_bollinger_bands(arg.prices, BB_LENGTH, BB_STD_DEV)
    /\ UNCHANGED <<engine, data_lock, pc, idx, signals, frame, cycles, response, arg>>

NextClose ==
    /\ ret # NoRet
    /\ Len(arg.prices) < MaxPoints
    /\ \E c \in {Low, High} : arg' = [prices |-> Append(arg.prices, c)]
    /\ ret' = NoRet
    /\ UNCHANGED <<engine, data_lock, pc, idx, signals, frame, cycles, response>>

NextBands == CallBands \/ NextClose

SpecBands == InitBands /\ [][NextBands]_vars

(***************************************************************************)
(* The properties                                                          *)
(***************************************************************************)
Held == ret # NoRet /\ arg.entry_data # NoTrade /\ ret.exit = "None"

\* C1: across an evaluation that leaves the position open, the stored
\* stop_loss never moves against the position: it does not fall for a LONG
\* (signal BUY) and does not rise for a SHORT (signal SELL).
C1_StopNeverLoosens ==
    Held => IF arg.entry_data.signal = "BUY"
            THEN RatLeq(arg.entry_data.stop_loss, ret.left.stop_loss)
            ELSE RatLeq(ret.left.stop_loss, arg.entry_data.stop_loss)

InCycle(t) == pc[t] \in {"evaluate", "metrics", "update", "del", "lock", "publish"}
InSignal(t) == pc[t] \in {"metrics", "update", "del"}

\* C2: at most one evaluation cycle is running at any time, and
\* bollinger_signal is never executing for the same asset in two threads.
C2_OneCycleAtATime ==
    \A t1, t2 \in Threads :
        /\ InCycle(t1) /\ InCycle(t2) => t1 = t2
        /\ InSignal(t1) /\ InSignal(t2) /\ Symbol(t1) = Symbol(t2) => t1 = t2

\* C3: whenever a reader can run, the ledger, the summary, the open positions
\* and the published snapshots reflect the same completed cycles: every trade
\* of the ledger is counted in total_trades, and every published snapshot
\* that is not an ERROR shows a position exactly when one is open.
C3_ReadersSeeWholeCycles ==
    Serving =>
        /\ performance_metrics.total_trades = Len(trade_history)
        /\ \A s \in DOMAIN latest_signals :
              latest_signals[s].signal # "ERROR" =>
                 (latest_signals[s].position.in_position <=> Has(active_trades, s))

\* Thread t ends an evaluation in this step with an ERROR snapshot
ReturnsError(t) ==
    /\ pc[t] \in {"evaluate", "del"}
    /\ Has(signals'[t], Symbol(t))
    /\ ~Has(signals[t], Symbol(t))
    /\ signals'[t][Symbol(t)].signal = "ERROR"

\* C4: an evaluation that returns an ERROR snapshot has recorded no trade
\* and leaves active_trades and trade_history as they were.
C4_ErrorLeavesStateUntouched ==
    [][\A t \in Threads :
          ReturnsError(t) => /\ frame[t] = NoFrame
                             /\ UNCHANGED <<active_trades, trade_history>>]_vars

\* How far a thread at position p, asset i, is into its cycle
Rank(p, i) ==
    CASE p = "evaluate" -> 4 * i
      [] p = "metrics"  -> 4 * i + 1
      [] p = "update"   -> 4 * i + 2
      [] p = "del"      -> 4 * i + 3
      [] p = "lock"     -> 4 * Len(ASSETS) + 4
      [] p = "publish"  -> 4 * Len(ASSETS) + 5
      [] OTHER          -> 4 * Len(ASSETS) + 6

\* A cycle never gets stuck: its thread can take its next step (the metrics
\* step is a total function of the ledger), or waits for the lock held by a
\* thread that is about to release it; what is published, and what is
\* about to be, holds one snapshot per asset.
C5_State ==
    /\ latest_signals = EmptyDict \/ DOMAIN latest_signals = Symbols
    /\ \A t \in Threads :
         /\ pc[t] = "publish" => DOMAIN signals[t] = Symbols /\ data_lock = t
         /\ pc[t] = "evaluate" => ENABLED Evaluate(t)
         /\ pc[t] = "del" => ENABLED DelTrade(t)
         /\ pc[t] = "publish" => ENABLED Publish(t)
         /\ pc[t] = "lock" =>
               \/ ENABLED Lock(t)
               \/ data_lock \in Threads /\ pc[data_lock] = "publish"

C5_Step ==
    /\ latest_signals' # latest_signals =>
          \E t \in Threads : /\ pc[t] = "publish"
                              /\ latest_signals' = signals[t]
                              /\ DOMAIN latest_signals' = Symbols
    /\ \A t \in Threads :
         /\ InCycle(t) /\ <<pc[t], idx[t]>> # <<pc'[t], idx'[t]>> =>
               Rank(pc'[t], idx'[t]) > Rank(pc[t], idx[t])
         /\ ReturnsError(t) =>
               /\ signals'[t] = Put(signals[t], Symbol(t), signals'[t][Symbol(t)])
               /\ pc'[t] \in {"evaluate", "lock"}
               /\ trade_history' = trade_history
               /\ \A s \in Symbols \ {Symbol(t)} :
                     Get(active_trades', s) = Get(active_trades, s)

\* C5: every cycle runs to its end and publishes, in one step, a map with
\* exactly one snapshot per asset; a failing evaluation stores an ERROR
\* snapshot, the loop goes on, and the snapshots, positions and trades of the
\* other assets are untouched.
C5_CycleContainsFailures == []C5_State /\ [][C5_Step]_vars

\* A published cycle in which ETHUSDT failed and BTCUSDT opened a long
C5_Witness ==
    /\ DOMAIN latest_signals = Symbols
    /\ latest_signals[ASSETS[2]].signal = "ERROR"
    /\ latest_signals[ASSETS[1]].signal = "BUY"

\* C6: the ledger never holds more than 200 trades, a trade is added at its
\* end, and adding to a full ledger removes exactly the oldest trade.
C6_LedgerIsFifo200 ==
    /\ [](Len(trade_history) <= 200)
    /\ [][trade_history' # trade_history =>
            /\ Len(trade_history') >= 1
            /\ trade_history' =
                  Append(IF Len(trade_history) = 200
                         THEN Tail(trade_history) ELSE trade_history,
                         trade_history'[Len(trade_history')])]_vars

\* The ledger is full and its first seeded trade has been evicted
C6_Witness ==
    /\ Len(trade_history) = 200
    /\ trade_history[1] = SeedMean.trade
    /\ trade_history[2] = SeedReversal.trade

\* The entry of s after the step is not the one before it carried on
Created(s) ==
    /\ Has(active_trades', s)
    /\ \/ ~Has(active_trades, s)
       \/ active_trades'[s].signal # active_trades[s].signal
       \/ active_trades'[s].entry_price # active_trades[s].entry_price

C8_NetPnlIsGrossMinusFee ==
    (ret # NoRet /\ ret.exit # "None") =>
        LET tr == ret.trade
            e  == arg.entry_data.entry_price
            x  == arg.bar.current_price
            gain == IF arg.entry_data.signal = "BUY" THEN x - e ELSE e - x
        IN  /\ ret.exit \in {"Trailing", "Stop", "SMA", "Reversal"}
            /\ tr.reason = ret.exit
            /\ tr.signal_type = arg.entry_data.signal
            /\ tr.entry_price = e
            /\ tr.exit_price = x
            /\ tr.pnl[1] * 10 * e = tr.pnl[2] * (1000 * gain - 2 * e)

\* A short closed by its trailing stop
C8_Witness ==
    /\ ret # NoRet
    /\ ret.exit = "Trailing"
    /\ ret.trade.signal_type = "SELL"

\* An accessor answers in this step
ReaderStep == response' # NoResponse /\ response'.route # "update"

\* C9: get_signals, get_performance and get_trades change none of
\* latest_signals, active_trades, trade_history, performance_metrics;
\* get_trades returns the last 50 trades of the ledger (all when there are
\* fewer) in ledger order; and the engine state changes only in a step of a
\* thread that is running a cycle.
C9_ReadersDoNotWrite ==
    [][/\ ReaderStep =>
             /\ UNCHANGED engine
             /\ response'.route = "signals" => response'.body = latest_signals
             /\ response'.route = "performance" => response'.body = performance_metrics
             /\ response'.route = "trades" =>
                   LET q == trade_history
                       b == response'.body
                       k == Min(Len(q), 50)
                   IN  /\ Len(b) = k
                       /\ \A i \in 1..k : b[i] = q[Len(q) - k + i]
       /\ engine' # engine =>
             \E t \in Threads : InCycle(t) /\ <<pc[t], idx[t]>> # <<pc'[t], idx'[t]>>]_vars

\* get_trades has answered from a ledger of more than 50 trades
C9_Witness ==
    /\ response.route = "trades"
    /\ Len(trade_history) > 50
    /\ Len(response.body) = 50

\* C10: with no open position, a breakout up opens a LONG at the current
\* close with stop 0.98 * close, a breakout down (and no breakout up) opens a
\* SHORT with stop 1.02 * close, both with stop_type Initial and highest =
\* lowest = close; otherwise nothing changes and the result is NEUTRAL,
\* between bands.
C10_FlatOpensOnBreakout ==
    (ret # NoRet /\ arg.entry_data = NoTrade) =>
        LET b   == arg.bar
            c   == b.current_price
            up  == /\ b.previous_price <= b.previous_sma + b.previous_std
                   /\ c > b.current_sma + b.current_std
            dn  == /\ b.previous_price >= b.previous_sma - b.previous_std
                   /\ c < b.current_sma - b.current_std
            opened(sig, pct) ==
                /\ ret.left.signal = sig
                /\ ret.left.entry_price = c
                /\ ret.left.highest_since_entry = c
                /\ ret.left.lowest_since_entry = c
                /\ ret.left.stop_type = "Initial"
                /\ ret.left.stop_loss[1] * 100 = ret.left.stop_loss[2] * c * pct
                /\ ret.signal = sig
        IN  /\ ret.exit = "None"
            /\ IF up THEN opened("BUY", 98) /\ ret.reason = "NEW LONG"
               ELSE IF dn THEN opened("SELL", 102) /\ ret.reason = "NEW SHORT"
               ELSE /\ ret.left = NoTrade
                    /\ ret.signal = "NEUTRAL"
                    /\ ret.reason = "Between bands"

\* A short opened from flat
C10_Witness ==
    /\ ret # NoRet
    /\ arg.entry_data = NoTrade
    /\ ret.reason = "NEW SHORT"

\* bollinger_signal has evaluated an open position
Open == ret # NoRet /\ arg.entry_data # NoTrade

\* The evaluation in integers: the position before it, the bar's price, the
\* extremes after tracking, whether unrealized P&L is at least 1%, and 100
\* times the stop that is active after the stop update.
IsLong == arg.entry_data.signal = "BUY"
Price == arg.bar.current_price
EntryPrice == arg.entry_data.entry_price
Highest == Max(arg.entry_data.highest_since_entry, Price)
Lowest == Min(arg.entry_data.lowest_since_entry, Price)
Trails ==
    IF IsLong THEN 100 * (Price - EntryPrice) >= EntryPrice
    ELSE 100 * (EntryPrice - Price) >= EntryPrice
ActiveStop100 ==
    IF IsLong THEN 98 * (IF Trails THEN Highest ELSE EntryPrice)
    ELSE 102 * (IF Trails THEN Lowest ELSE EntryPrice)
Breach == IF IsLong THEN 100 * Price <= ActiveStop100 ELSE 100 * Price >= ActiveStop100
NearMean ==
    1000 * Abs(Price - arg.bar.current_sma) < 2 * arg.bar.current_sma
BreakoutUp ==
    /\ arg.bar.previous_price <= arg.bar.previous_sma + arg.bar.previous_std
    /\ Price > arg.bar.current_sma + arg.bar.current_std
BreakoutDown ==
    /\ arg.bar.previous_price >= arg.bar.previous_sma - arg.bar.previous_std
    /\ Price < arg.bar.current_sma - arg.bar.current_std

\* A quiet bar closing at price c: no breakout and not at the mean
QuietBar(c) ==
    [previous_price |-> c, current_price |-> c, previous_sma |-> c, previous_std |-> 0,
     current_sma |-> c + 15, current_std |-> 100]

\* The scenario in ticks of 0.1: LONG entered at 1000, evaluated at 1050 (stop
\* becomes 1029) and then at 1028: closed, reason Trailing, net pnl 2.6
StopScenario ==
    LET at1050 == bollinger_signal(ASSETS[1], NewTrade("BUY", 1000), QuietBar(1050))
        at1028 == bollinger_signal(ASSETS[1], at1050.left, QuietBar(1028))
    IN  /\ at1050.exit = "None"
        /\ at1050.left.stop_loss = <<1029, 1>>
        /\ at1028.exit = "Trailing"
        /\ at1028.trade.pnl = <<13, 5>>
        /\ at1028.left = NoTrade

\* C11: when, after the stop update of an evaluation, the price breaches the
\* active stop (price <= stop for a LONG, price >= stop for a SHORT), the
\* position is closed in that evaluation, with reason Trailing when unrealized
\* P&L >= 1% (stop = highest * 0.98 or lowest * 1.02) and Stop otherwise
\* (stop = entry * 0.98 or entry * 1.02).
C11_BreachedStopCloses ==
    /\ StopScenario
    /\ (Open /\ Breach) =>
        /\ ret.entry.stop_loss[1] * 100 = ret.entry.stop_loss[2] * ActiveStop100
        /\ ret.exit = IF Trails THEN "Trailing" ELSE "Stop"
        /\ ret.trade.reason = ret.exit
        /\ ret.left = NoTrade

\* LONG entered at 1000, up to 1050 (stop 1029), then 1020: closed by the
\* trailing stop with net pnl 2 - 0.2
C11_Witness ==
    /\ Open /\ Breach /\ IsLong
    /\ EntryPrice = 1000 /\ Highest = 1050 /\ Price = 1020
    /\ ret.exit = "Trailing"
    /\ ret.trade.pnl = <<9, 5>>

\* No thread is between the append of a trade and the writing of the summary
Settled == \A t \in Threads : pc[t] \notin {"metrics", "update"}

\* Ten times the sum of the pnls q[lo..hi], for pnls that are multiples of 0.1
RECURSIVE Tenths(_, _, _)
Tenths(q, lo, hi) ==
    IF lo > hi THEN 0
    ELSE IF lo = hi THEN q[lo].pnl[1] * (10 \div q[lo].pnl[2])
    ELSE Tenths(q, lo, (lo + hi) \div 2) + Tenths(q, (lo + hi) \div 2 + 1, hi)

Trade(p) == record_trade(ASSETS[1], 1000, 1000, "BUY", p, "SMA")

\* The summary of a ledger with pnls 2, -1, 1, -0.5, 0.5
MetricsScenario ==
    update_performance_metrics(InitialMetrics,
        <<Trade(<<2, 1>>), Trade(<<-1, 1>>), Trade(<<1, 1>>),
          Trade(<<-1, 2>>), Trade(<<1, 2>>)>>)

\* C12: after every trade close the summary is the value recomputed from the
\* ledger as it is: total_trades = number of trades, winning_trades = number
\* with pnl > 0, losing_trades = number with pnl < 0, total_pnl = sum of pnl,
\* win_rate = winning_trades / total_trades * 100; total_trades <= 200 and
\* winning_trades + losing_trades <= total_trades.  For wins 2, 1, 0.5 and
\* losses -1, -0.5: win_rate 60 and total_pnl 2.
C12_SummaryMatchesLedger ==
    /\ MetricsScenario.win_rate = <<60, 1>>
    /\ MetricsScenario.total_pnl = <<2, 1>>
    /\ (Settled /\ Len(trade_history) > 0) =>
          LET m == performance_metrics
              q == trade_history
              n == Len(q)
          IN  /\ \A i \in 1..n : 10 % q[i].pnl[2] = 0
              /\ m.total_trades = n
              /\ m.winning_trades = Cardinality({i \in 1..n : q[i].pnl[1] > 0})
              /\ m.losing_trades = Cardinality({i \in 1..n : q[i].pnl[1] < 0})
              /\ m.total_pnl[1] * 10 = m.total_pnl[2] * Tenths(q, 1, n)
              /\ m.win_rate[1] * n = m.win_rate[2] * 100 * m.winning_trades
              /\ m.total_trades <= 200
              /\ m.winning_trades + m.losing_trades <= m.total_trades

\* calculate_bollinger_bands has been applied to arg.prices
Banded == ret # NoRet

\* C13 as stated: with at least 20 closes the three sequences are aligned with
\* the input and upper >= mean >= lower at every index; with fewer, no bands.
C13_BandsOrderedEverywhere ==
    Banded =>
        IF Len(arg.prices) < 20 THEN ~ret.bands
        ELSE /\ ret.bands
             /\ Len(ret.upper_band) = Len(arg.prices)
             /\ Len(ret.sma) = Len(arg.prices)
             /\ Len(ret.lower_band) = Len(arg.prices)
             /\ \A i \in 1..Len(arg.prices) :
                   FGeq(ret.upper_band[i], ret.sma[i]) /\ FGeq(ret.sma[i], ret.lower_band[i])

\* C13: with at least 20 closes the three sequences are aligned with the
\* input, their first 19 entries are undefined (NaN), and from the 20th entry
\* on upper >= mean >= lower; with fewer than 20 closes, no bands.
C13_BandsOrderedAfterWarmUp ==
    Banded =>
        IF Len(arg.prices) < 20 THEN ~ret.bands
        ELSE /\ ret.bands
             /\ Len(ret.upper_band) = Len(arg.prices)
             /\ Len(ret.sma) = Len(arg.prices)
             /\ Len(ret.lower_band) = Len(arg.prices)
             /\ \A i \in 1..19 :
                   IsNaN(ret.upper_band[i]) /\ IsNaN(ret.sma[i]) /\ IsNaN(ret.lower_band[i])
             /\ \A i \in 20..Len(arg.prices) :
                   FGeq(ret.upper_band[i], ret.sma[i]) /\ FGeq(ret.sma[i], ret.lower_band[i])

\* Bands of 21 closes whose last window is not flat: strictly ordered there
C13_Witness ==
    /\ Banded
    /\ Len(arg.prices) = 21
    /\ ret.bands
    /\ ~FGeq(ret.sma[21], ret.upper_band[21])
    /\ ~FGeq(ret.lower_band[21], ret.sma[21])
    /\ ~IsNaN(ret.sma[21])

\* The breakout against the open position
Opposite == (IsLong /\ BreakoutDown) \/ (~IsLong /\ BreakoutUp)

\* C14: in one evaluation of an open position the exit rules apply in the
\* order stop, mean-revert, reversal, and one trade at most is recorded: a
\* breached stop gives reason Stop or Trailing whatever else holds; with the
\* stop not breached, nearMean (|close - SMA| / SMA < 0.002) gives reason SMA
\* for either direction, also under an opposite breakout; Reversal is recorded
\* only when neither earlier rule fired.
C14_ExitOrder ==
    Open =>
        /\ Breach => ret.exit \in {"Stop", "Trailing"}
        /\ (~Breach /\ NearMean) => ret.exit = "SMA"
        /\ (~Breach /\ ~NearMean /\ Opposite) => ret.exit = "Reversal"
        /\ (~Breach /\ ~NearMean /\ ~Opposite) => ret.exit = "None"
        /\ ret.exit = "SMA" => ~Breach /\ NearMean
        /\ ret.exit = "Reversal" => ~Breach /\ ~NearMean /\ Opposite
        /\ ret.exit # "None" => ret.trade.reason = ret.exit

\* A breached stop wins over nearMean and an opposite breakout that hold too
C14_Witness ==
    /\ Open /\ Breach /\ NearMean /\ Opposite
    /\ ret.exit = "Stop"

\* ret.left is a position just opened in direction sig at the current price
Fresh(sig) ==
    /\ ret.left # NoTrade
    /\ ret.left.signal = sig
    /\ ret.left.entry_price = Price
    /\ ret.left.highest_since_entry = Price
    /\ ret.left.lowest_since_entry = Price
    /\ ret.left.stop_type = "Initial"
    /\ ret.left.stop_loss[1] * 100 =
          ret.left.stop_loss[2] * Price * (IF sig = "BUY" THEN 98 ELSE 102)

\* One call of bollinger_signal on its own (no other thread at work on the
\* symbol): a close and an open happen in one evaluation only on a reversal: an
\* open LONG under newSellSignal (an open SHORT under newBuySignal), with
\* neither the stop nor the mean-revert exit fired, is recorded with reason
\* Reversal and the asset ends the evaluation in the opposite direction with
\* entry = highest = lowest = current price, stop_type Initial and stop_loss =
\* price * 0.98 (new LONG) or price * 1.02 (new SHORT); after a close with
\* reason Stop, Trailing or SMA the asset is flat, whatever breakout holds.
ReversalInOneCall ==
    /\ (ret # NoRet /\ ret.exit # "None") => Open
    /\ Open =>
        /\ (~Breach /\ ~NearMean /\ Opposite) =>
              /\ ret.exit = "Reversal"
              /\ ret.trade.reason = "Reversal"
              /\ ret.trade.signal_type = arg.entry_data.signal
              /\ Fresh(IF IsLong THEN "SELL" ELSE "BUY")
              /\ ret.signal = ret.left.signal
        /\ ret.exit = "Reversal" => ~Breach /\ ~NearMean /\ Opposite
        /\ ret.exit \in {"Stop", "Trailing", "SMA"} => ret.left = NoTrade
        /\ ret.exit = "None" => /\ ret.left # NoTrade
                                /\ ret.left.signal = arg.entry_data.signal
                                /\ ret.left.entry_price = EntryPrice

\* Thread t's evaluation of its symbol ends in this step, after a close
EndsClose(t) == pc[t] = "del" /\ pc'[t] # "del"

\* C15: an evaluation that records a close with reason Reversal ends with the
\* asset holding a position in the opposite direction, entry = highest =
\* lowest = current price, stop_type Initial and stop_loss = price * 0.98 (new
\* LONG) or price * 1.02 (new SHORT); an evaluation that records a close with
\* reason Stop, Trailing or SMA ends with the asset flat; no other evaluation
\* both closes and opens.
C15_CloseAndOpenOnlyOnReversal ==
    [][\A t \in Threads :
         EndsClose(t) =>
            LET s == Symbol(t)
                tr == frame[t].trade
                opposite == IF tr.signal_type = "BUY" THEN "SELL" ELSE "BUY"
            IN  IF frame[t].exit = "Reversal"
                THEN /\ Has(active_trades', s)
                     /\ active_trades'[s].signal = opposite
                     /\ active_trades'[s].entry_price = tr.exit_price
                     /\ active_trades'[s].highest_since_entry = tr.exit_price
                     /\ active_trades'[s].lowest_since_entry = tr.exit_price
                     /\ active_trades'[s].stop_type = "Initial"
                     /\ active_trades'[s].stop_loss[1] * 100 =
                           active_trades'[s].stop_loss[2] * tr.exit_price
                              * (IF opposite = "BUY" THEN 98 ELSE 102)
                ELSE ~Has(active_trades', s)]_vars

\* Thread t records a close of its symbol's position in this step
RecordsClose(t) == pc[t] = "evaluate" /\ pc'[t] = "metrics"

\* Thread t has recorded a close of s and not yet removed the position
ClosePending(t, s) == InSignal(t) /\ Symbol(t) = s

\* C16: under any interleaving of cycles, the ledger changes only by the
\* close of an open position, which appends exactly one trade of that
\* position; a position is recorded once (no close is recorded for a position
\* whose close another thread has already recorded); and a position leaves
\* active_trades only in the del step of a thread that recorded its close.
C16_OneTradePerPosition ==
    [][/\ trade_history' # trade_history =>
             \E t \in Threads :
                LET s == Symbol(t) IN
                /\ RecordsClose(t)
                /\ Has(active_trades, s)
                /\ trade_history' =
                      Append(IF Len(trade_history) = MAXLEN
                             THEN Tail(trade_history) ELSE trade_history,
                             frame'[t].trade)
                /\ frame'[t].trade.symbol = s
                /\ frame'[t].trade.signal_type = active_trades[s].signal
                /\ frame'[t].trade.entry_price = active_trades[s].entry_price
                /\ \A u \in Threads \ {t} : ~ClosePending(u, s)
       /\ \A t \in Threads : RecordsClose(t) => trade_history' # trade_history
       /\ \A s \in Symbols :
             (Has(active_trades, s) /\ (~Has(active_trades', s) \/ Created(s))) =>
                \E t \in Threads :
                   /\ EndsClose(t) /\ Symbol(t) = s
                   /\ frame[t].trade.signal_type = active_trades[s].signal
                   /\ frame[t].trade.entry_price = active_trades[s].entry_price]_vars

\* Ten times the sum of those pnls of q[lo..hi] that have the sign sgn
RECURSIVE TenthsOf(_, _, _, _)
TenthsOf(q, lo, hi, sgn) ==
    IF lo > hi THEN 0
    ELSE IF lo = hi
    THEN IF q[lo].pnl[1] * sgn > 0 THEN q[lo].pnl[1] * (10 \div q[lo].pnl[2]) ELSE 0
    ELSE TenthsOf(q, lo, (lo + hi) \div 2, sgn)
           + TenthsOf(q, (lo + hi) \div 2 + 1, hi, sgn)

\* The summary of a window with pnls 2, -1, and the summary computed after it
\* for a window with pnls 2, 1, from which the losing trade has gone
LossScenario ==
    update_performance_metrics(InitialMetrics, <<Trade(<<2, 1>>), Trade(<<-1, 1>>)>>)
LossEvictedScenario ==
    update_performance_metrics(LossScenario, <<Trade(<<2, 1>>), Trade(<<1, 1>>)>>)

\* C17: after every trade close, over the ledger as it is, profit_factor =
\* sum of the positive pnls / |sum of the negative pnls|, and 0 when there is
\* no losing trade or the losses sum to 0, also when the summary before held
\* the profit factor of a window with losses; avg_win and avg_loss are the
\* means of the positive and of the negative pnls, 0 when there are none.
C17_ProfitFactor ==
    /\ LossScenario.profit_factor = <<2, 1>>
    /\ LossScenario.avg_loss = <<-1, 1>>
    /\ LossEvictedScenario.profit_factor = Zero
    /\ LossEvictedScenario.avg_loss = Zero
    /\ LossEvictedScenario.avg_win = <<3, 2>>
    /\ (Settled /\ Len(trade_history) > 0) =>
          LET m  == performance_metrics
              q  == trade_history
              n  == Len(q)
              W  == TenthsOf(q, 1, n, 1)
              L  == TenthsOf(q, 1, n, -1)
              nw == Cardinality({i \in 1..n : q[i].pnl[1] > 0})
              nl == Cardinality({i \in 1..n : q[i].pnl[1] < 0})
          IN  /\ \A i \in 1..n : 10 % q[i].pnl[2] = 0
              /\ IF nl = 0 \/ L = 0
                 THEN m.profit_factor = Zero
                 ELSE m.profit_factor[1] * (0 - L) = m.profit_factor[2] * W
              /\ IF nw = 0 THEN m.avg_win = Zero
                 ELSE m.avg_win[1] * 10 * nw = m.avg_win[2] * W
              /\ IF nl = 0 THEN m.avg_loss = Zero
                 ELSE m.avg_loss[1] * 10 * nl = m.avg_loss[2] * L

\* A hundred times the sum of the squares of the pnls of q[lo..hi]
RECURSIVE SquareTenths(_, _, _)
SquareTenths(q, lo, hi) ==
    IF lo > hi THEN 0
    ELSE IF lo = hi
    THEN (q[lo].pnl[1] * (10 \div q[lo].pnl[2])) * (q[lo].pnl[1] * (10 \div q[lo].pnl[2]))
    ELSE SquareTenths(q, lo, (lo + hi) \div 2) + SquareTenths(q, (lo + hi) \div 2 + 1, hi)

NoSharpe == [sign |-> 0, square |-> Zero]

\* The summaries of a ledger of one trade and of a ledger of three equal pnls
OneTradeScenario == update_performance_metrics(InitialMetrics, <<Trade(<<2, 1>>)>>)
EqualPnlScenario ==
    update_performance_metrics(InitialMetrics,
        <<Trade(<<-1, 5>>), Trade(<<-1, 5>>), Trade(<<-1, 5>>)>>)

\* C18: after every trade close, sharpe_ratio is 0 when the ledger holds one
\* trade or all its pnls are equal, and otherwise is mean / std * sqrt(count)
\* of the pnls of the ledger as it is (given by its sign and its square
\* count * S^2 / (count * Q - S^2), S the sum and Q the sum of squares); the
\* summary never keeps a sharpe_ratio of another ledger window.
C18_SharpeOfCurrentLedger ==
    /\ OneTradeScenario.sharpe_ratio = NoSharpe
    /\ EqualPnlScenario.sharpe_ratio = NoSharpe
    /\ (Settled /\ Len(trade_history) > 0) =>
          LET m == performance_metrics
              q == trade_history
              n == Len(q)
              S == Rat(Tenths(q, 1, n), 10)
              Q == Rat(SquareTenths(q, 1, n), 100)
              V == RatSub(RatMul(Int2Rat(n), Q), RatMul(S, S))
          IN  /\ \A i \in 1..n : 10 % q[i].pnl[2] = 0
              /\ IF n = 1 \/ \A i \in 1..n : q[i].pnl = q[1].pnl
                 THEN m.sharpe_ratio = NoSharpe
                 ELSE /\ V[1] > 0
                      /\ m.sharpe_ratio.sign =
                            (IF S[1] > 0 THEN 1 ELSE IF S[1] < 0 THEN -1 ELSE 0)
                      /\ m.sharpe_ratio.square =
                            RatDiv(RatMul(Int2Rat(n), RatMul(S, S)), V)

\* The bar's price is at or beyond the stop stored when the evaluation starts
StoredBreach ==
    IF IsLong THEN RatLeq(Int2Rat(Price), arg.entry_data.stop_loss)
    ELSE RatLeq(arg.entry_data.stop_loss, Int2Rat(Price))

\* C19: an evaluation whose price is at or beyond the stop_loss stored for the
\* open position by the previous evaluation (price <= stop for a LONG, price
\* >= stop for a SHORT) closes the position.
C19_StoredStopCloses ==
    (Open /\ StoredBreach) => ret.exit # "None"

\* The evaluation leaves a position open
LeftOpen == ret # NoRet /\ ret.left # NoTrade

\* C20: a position that is open when an evaluation ends (opened, reversed
\* into or held) has the price strictly on the safe side of its stored stop
\* (price > stop_loss for a LONG, price < stop_loss for a SHORT), and its
\* stop_loss is entry_price * 0.98 (LONG) or * 1.02 (SHORT) when stop_type is
\* Initial and highest_since_entry * 0.98 (LONG) or lowest_since_entry * 1.02
\* (SHORT) when stop_type is Trailing.
C20_OpenPositionIsSafe ==
    LeftOpen =>
        LET p    == ret.left
            long == p.signal = "BUY"
            base == IF p.stop_type = "Initial" THEN p.entry_price
                    ELSE IF long THEN p.highest_since_entry
                    ELSE p.lowest_since_entry
        IN  /\ p.signal \in {"BUY", "SELL"}
            /\ p.stop_type \in {"Initial", "Trailing"}
            /\ IF long THEN p.stop_loss[1] < Price * p.stop_loss[2]
               ELSE p.stop_loss[1] > Price * p.stop_loss[2]
            /\ p.stop_loss[1] * 100 =
                  p.stop_loss[2] * base * (IF long THEN 98 ELSE 102)

\* A held SHORT whose stop trails its lowest price, below its entry
C20_Witness ==
    /\ LeftOpen /\ Open
    /\ ret.exit = "None"
    /\ ret.left.signal = "SELL"
    /\ ret.left.stop_type = "Trailing"
    /\ ret.left.lowest_since_entry < ret.left.entry_price
    /\ ret.left.lowest_since_entry < Price

\* The extremes of position p bracket its entry price
Bracketed(p) ==
    /\ p.highest_since_entry >= p.entry_price
    /\ p.entry_price >= p.lowest_since_entry

\* C21: every open position has highest_since_entry >= entry_price >=
\* lowest_since_entry, before and after an evaluation and in the entry as it
\* is updated in place; an evaluation of a position never lowers its
\* highest_since_entry nor raises its lowest_since_entry; and a position left
\* open by an evaluation has highest_since_entry >= current price >=
\* lowest_since_entry.
C21_ExtremesBracketEntry ==
    /\ arg.entry_data # NoTrade => Bracketed(arg.entry_data)
    /\ Open =>
          /\ Bracketed(ret.entry)
          /\ ret.entry.signal = arg.entry_data.signal
          /\ ret.entry.entry_price = EntryPrice
          /\ ret.entry.highest_since_entry >= arg.entry_data.highest_since_entry
          /\ ret.entry.lowest_since_entry <= arg.entry_data.lowest_since_entry
          /\ ret.entry.highest_since_entry >= Price
          /\ ret.entry.lowest_since_entry <= Price
          /\ ret.exit = "None" => ret.left = ret.entry
    /\ LeftOpen =>
          /\ Bracketed(ret.left)
          /\ ret.left.highest_since_entry >= Price
          /\ Price >= ret.left.lowest_since_entry

\* A LONG held at a price between its entry and a high it has left behind,
\* after a low below its entry
C21_Witness ==
    /\ Open /\ IsLong
    /\ ret.exit = "None"
    /\ ret.left.highest_since_entry > Price
    /\ Price > EntryPrice
    /\ EntryPrice > ret.left.lowest_since_entry

\* C21 on the engine: every entry of active_trades brackets its entry price,
\* and a step that keeps a symbol's position never lowers its highest nor
\* raises its lowest price since entry.
ExtremesInEngine ==
    /\ [](\A s \in DOMAIN active_trades : Bracketed(active_trades[s]))
    /\ [][\A s \in Symbols :
            (Has(active_trades, s) /\ Has(active_trades', s) /\ ~Created(s)) =>
               /\ active_trades'[s].highest_since_entry
                     >= active_trades[s].highest_since_entry
               /\ active_trades'[s].lowest_since_entry
                     <= active_trades[s].lowest_since_entry]_vars

\* The returned signal sig and position info agree with the position p that
\* is stored for the asset (NoTrade: none)
Agrees(sig, info, p) ==
    /\ sig \in {"BUY", "SELL", "NEUTRAL"}
    /\ sig = "BUY" <=> (p # NoTrade /\ p.signal = "BUY")
    /\ sig = "SELL" <=> (p # NoTrade /\ p.signal = "SELL")
    /\ sig = "NEUTRAL" <=> p = NoTrade
    /\ IF p # NoTrade
       THEN /\ info.in_position = TRUE
            /\ info.position_type = p.signal
            /\ info.entry_price = p.entry_price
            /\ info.current_stop = p.stop_loss
            /\ info.stop_type = p.stop_type
       ELSE info = NoInfo

\* C22: the signal returned by an evaluation is BUY exactly when it leaves a
\* LONG open, SELL exactly when it leaves a SHORT open and NEUTRAL exactly
\* when it leaves no position; the position info has in_position true and the
\* stored position's position_type, entry_price and current_stop (and
\* stop_type) exactly when a position is left open, and is empty otherwise.
C22_SignalAgreesWithPosition ==
    ret # NoRet => Agrees(ret.signal, ret.position, ret.left)

\* A reversal out of a LONG returns SELL with the info of the new SHORT
C22_Witness ==
    /\ Open /\ IsLong
    /\ ret.exit = "Reversal"
    /\ ret.signal = "SELL"
    /\ ret.position.position_type = "SELL"
    /\ ret.position.entry_price = Price

\* C22 on the engine: a snapshot that a cycle stores for a symbol and that is
\* not an ERROR snapshot agrees with the symbol's entry of active_trades as
\* the step leaves it.
SnapshotAgreesInEngine ==
    [][\A t \in Threads :
         (pc[t] \in {"evaluate", "del"} /\ <<pc[t], idx[t]>> # <<pc'[t], idx'[t]>>
            /\ pc'[t] # "metrics") =>
            LET s == Symbol(t)
                snap == signals'[t][s]
            IN  snap.signal # "ERROR" =>
                   Agrees(snap.signal, snap.position, Get(active_trades', s))]_vars

====
